---- MODULE Spec2Model ----
(***************************************************************************)
(* State-machine model of src/app.py: a Streamlit chat page that relays    *)
(* news text to a streaming chat-completion endpoint.  A text is a         *)
(* sequence of characters; a fixed literal of the program (a heading, a    *)
(* prompt template half) is one opaque character.  Wall-clock values       *)
(* (timestamps, durations) are not part of the state.                      *)
(***************************************************************************)
EXTENDS Integers, Sequences, FiniteSets, TLC

VARIABLES
    messages,          \* st.session_state.messages
    is_first_message,  \* st.session_state.is_first_message
    history,           \* st.session_state.history
    should_stop,       \* st.session_state.should_stop
    log,               \* the records written by logger.info, oldest first
    pc,                \* where the script run is: idle or inside a stream loop
    user_input,        \* the handler's user_input argument
    first_reasoning, first_result,      \* locals of handle_first_message
    second_reasoning, second_result,
    reasoning, response,                \* locals of handle_regular_message
    error,             \* TRUE while st.error's message is on the page
    requests,          \* requests issued by the current or last exchange
    consumed,          \* chunks the running loop has taken from its stream
    op,                \* the button of the last click: first, regular, empty, new
    outcome,           \* how that click's script run went: running, returned, raised
    pre,               \* the session and the input box when that button was clicked
    quote_in, quote_out, quote_done     \* format_reasoning_as_quote on its own

vars == <<messages, is_first_message, history, should_stop, log, pc, user_input,
          first_reasoning, first_result, second_reasoning, second_result,
          reasoning, response, error, requests, consumed, op, outcome, pre,
          quote_in, quote_out, quote_done>>

session == <<messages, is_first_message, history, should_stop>>
locals == <<first_reasoning, first_result, second_reasoning, second_result,
            reasoning, response>>
quoteVars == <<quote_in, quote_out, quote_done>>

(* ------------------------------ bounds -------------------------------- *)
MaxChunks == 1      \* chunks consumed from one stream
MaxMessages == 4    \* longest messages list
MaxLog == 3         \* most log records written
MaxLen == 4         \* length of a text given to format_reasoning_as_quote alone

(* ------------------------------ texts --------------------------------- *)
NL == "\n"
EmptyText == << >>

\* Inputs the user may type (main rejects the empty one).
UserTexts == { <<"n">>, EmptyText }

\* Increments a chunk's delta may carry; the empty text stands for None/"".
ReasoningDeltas == { EmptyText, <<"r", NL>> }
ContentDeltas == { EmptyText, <<"c">> }
Chunks == [reasoning_content : ReasoningDeltas, content : ContentDeltas]

LogLimit == 500

\* log_generation's x[:500] + "..." if len(x) > 500 else x
Truncate(x) ==
    IF Len(x) > LogLimit THEN SubSeq(x, 1, LogLimit) \o <<".", ".", ".">> ELSE x

LogRecord(input_context, output, reasoning_, status, step) ==
    [step |-> step,
     input |-> Truncate(input_context),
     output |-> Truncate(output),
     reasoning |-> Truncate(reasoning_),
     model |-> "deepseek-reasoner",
     status |-> status]

\* A logger whose record never reaches the sink.
log_generation_lost(input_context, output, reasoning_, status, step) == log

\* log_generation: one record appended to the sink.
log_generation(input_context, output, reasoning_, status, step) ==
    Append(log, LogRecord(input_context, output, reasoning_, status, step))

(* --------------------- format_reasoning_as_quote ---------------------- *)
RECURSIVE Split(_)
\* str.split('\n')
Split(t) ==
    IF \A i \in 1..Len(t) : t[i] # NL
    THEN <<t>>
    ELSE LET k == CHOOSE i \in 1..Len(t) :
                      t[i] = NL /\ \A j \in 1..(i - 1) : t[j] # NL
         IN  <<SubSeq(t, 1, k - 1)>> \o Split(SubSeq(t, k + 1, Len(t)))

RECURSIVE Join(_)
\* '\n'.join(lines)
Join(lines) ==
    IF Len(lines) = 0 THEN EmptyText
    ELSE IF Len(lines) = 1 THEN lines[1]
    ELSE lines[1] \o <<NL>> \o Join(Tail(lines))

\* A formatter that leaves empty lines unquoted.
QuoteSkipsEmptyLines(reasoning_text) ==
    IF reasoning_text = EmptyText THEN EmptyText
    ELSE LET lines == Split(reasoning_text)
             quoted_lines == [i \in 1..Len(lines) |->
                 IF lines[i] = EmptyText THEN EmptyText ELSE <<">", " ">> \o lines[i]]
         IN  Join(quoted_lines)

format_reasoning_as_quote(reasoning_text) ==
    IF reasoning_text = EmptyText THEN EmptyText
    ELSE LET lines == Split(reasoning_text)
             quoted_lines == [i \in 1..Len(lines) |-> <<">", " ">> \o lines[i]]
         IN  Join(quoted_lines)

(* ------------------------- prompts, requests -------------------------- *)
Message(role, content) == [role |-> role, content |-> content]

\* prompt_a.format(input=user_input): the template's text around {input}
formatted_prompt(u) == <<"<prompt_a:head>">> \o u \o <<"<prompt_a:tail>">>
prompt_b == <<"<prompt_b>">>

FirstRequest(u) ==
    << Message("system", <<"<analyst>">>), Message("user", formatted_prompt(u)) >>

SecondRequest(u, answer1) ==
    << Message("system", <<"<risk-analyst>">>),
       Message("user", formatted_prompt(u)),
       Message("assistant", answer1),
       Message("user", prompt_b) >>

\* A request that carries the new user text alone.
RegularRequestWithoutContext(msgs, u) == << Message("user", u) >>

\* messages[:-1] re-sent, then the new user text
RegularRequest(msgs, u) ==
    SubSeq(msgs, 1, Len(msgs) - 1) \o << Message("user", u) >>

complete_response(answer1, answer2) ==
    <<"<impact-heading>", NL, NL>> \o answer1
        \o <<NL, NL, "<risk-heading>", NL, NL>> \o answer2

HistoryRecord(u, r1, a1, r2, a2) ==
    [news |-> u, impact_analysis |-> a1, impact_reasoning |-> r1,
     risk_analysis |-> a2, risk_reasoning |-> r2]

(* --------------------------- the stream loop -------------------------- *)
\* The loop body below the stop check: `if delta.reasoning_content: ... elif
\* delta.content: ...`, on the accumulators acc = [reasoning, answer].
StreamBody(chunk, acc) ==
    IF chunk.reasoning_content # EmptyText
    THEN [reasoning |-> acc.reasoning \o chunk.reasoning_content,
          answer |-> acc.answer]
    ELSE IF chunk.content # EmptyText
    THEN [reasoning |-> acc.reasoning,
          answer |-> acc.answer \o chunk.content]
    ELSE acc

Acc(r, a) == [reasoning |-> r, answer |-> a]

Streaming == {"first_stream", "second_stream", "response_stream"}

(* ------------------------------- Init --------------------------------- *)
\* Lines 34-44.
SessionInit ==
    /\ messages = << >>
    /\ is_first_message = TRUE
    /\ history = << >>
    /\ should_stop = FALSE

Snapshot(u) ==
    [messages |-> messages, history |-> history, loglen |-> Len(log),
     is_first_message |-> is_first_message, user_input |-> u]

RunInit ==
    /\ log = << >>
    /\ pc = "idle"
    /\ user_input = EmptyText
    /\ first_reasoning = EmptyText /\ first_result = EmptyText
    /\ second_reasoning = EmptyText /\ second_result = EmptyText
    /\ reasoning = EmptyText /\ response = EmptyText
    /\ error = FALSE
    /\ requests = << >>
    /\ consumed = << >>
    /\ op = "none"
    /\ outcome = "returned"
    /\ pre = Snapshot(EmptyText)

QuoteIdle == quote_in = EmptyText /\ quote_out = EmptyText /\ quote_done = FALSE

Init == SessionInit /\ RunInit /\ QuoteIdle

(* --------------------------- helper effects --------------------------- *)
\* The handler has returned (or raised): its locals are gone.
LocalsGone ==
    /\ user_input' = EmptyText
    /\ first_reasoning' = EmptyText /\ first_result' = EmptyText
    /\ second_reasoning' = EmptyText /\ second_result' = EmptyText
    /\ reasoning' = EmptyText /\ response' = EmptyText
    /\ consumed' = << >>

\* main after a handler returned (lines 367-368): the page is drawn afresh.
Rerun == pc' = "idle" /\ error' = FALSE /\ outcome' = "returned"

\* An except clause that swallows the exception.
ShowErrorSwallowed == pc' = "idle" /\ error' = FALSE /\ outcome' = "raised"

\* main's `except Exception as e: st.error(...)` (lines 369-370).
ShowError == pc' = "idle" /\ error' = TRUE /\ outcome' = "raised"

\* A send is modelled while the records and Messages it may add still fit.
CanSend(adds) ==
    /\ pc = "idle"
    /\ Len(messages) + 2 <= MaxMessages
    /\ Len(log) + adds <= MaxLog

\* A handler that forgets the user Message.
AppendUserMessageSkipped(msgs, u) == msgs

\* st.session_state.messages.append({"role": "user", "content": user_input})
AppendUserMessage(msgs, u) == Append(msgs, Message("user", u))

(* ------------------------ handle_first_message ------------------------ *)
\* Send clicked on a first message; lines 128-156: reset the flag, append the user
\* Message, draw the stop button (stop_button is what st.button returns), open the
\* first stream (created is FALSE when client.chat.completions.create raises).
HandleFirstMessage(u, stop_button, created) ==
    /\ CanSend(2)
    /\ u # EmptyText
    /\ is_first_message
    /\ op' = "first"
    /\ pre' = Snapshot(u)
    /\ messages' = AppendUserMessage(messages, u)
    /\ UNCHANGED <<is_first_message, history, log, quoteVars>>
    /\ IF stop_button
       THEN /\ should_stop' = TRUE
            /\ requests' = << >>
            /\ LocalsGone
            /\ Rerun
       ELSE /\ should_stop' = FALSE
            /\ requests' = << FirstRequest(u) >>
            /\ IF created
               THEN /\ pc' = "first_stream"
                    /\ outcome' = "running"
                    /\ user_input' = u
                    /\ first_reasoning' = EmptyText /\ first_result' = EmptyText
                    /\ consumed' = << >>
                    /\ error' = FALSE
                    /\ UNCHANGED <<second_reasoning, second_result, reasoning, response>>
               ELSE LocalsGone /\ ShowError

\* Lines 158-168, one iteration that passes the stop check.
FirstChunk(chunk) ==
    /\ pc = "first_stream"
    /\ ~should_stop
    /\ Len(consumed) < MaxChunks
    /\ LET acc == StreamBody(chunk, Acc(first_reasoning, first_result))
       IN  /\ first_reasoning' = acc.reasoning
           /\ first_result' = acc.answer
    /\ consumed' = Append(consumed, chunk)
    /\ UNCHANGED <<session, log, pc, user_input, second_reasoning, second_result,
                   reasoning, response, error, requests, op, outcome, pre, quoteVars>>

\* Lines 158-160 and 170-198: the first loop ends (the stream is exhausted, or a
\* chunk arrives while the flag is set), the impact record is logged, and either
\* the flag is set (line 181 skips to lines 236-237) or the second stream is
\* opened.
FirstStreamEnds(created) ==
    /\ pc = "first_stream"
    /\ log' = log_generation(formatted_prompt(user_input), first_result,
                             first_reasoning, "success", "impact_analysis")
    /\ UNCHANGED <<messages, history, should_stop, op, pre, quoteVars>>
    /\ IF should_stop
       THEN /\ is_first_message' = FALSE
            /\ UNCHANGED requests
            /\ LocalsGone
            /\ Rerun
       ELSE /\ requests' = Append(requests, SecondRequest(user_input, first_result))
            /\ UNCHANGED is_first_message
            /\ IF created
               THEN /\ pc' = "second_stream"
                    /\ second_reasoning' = EmptyText /\ second_result' = EmptyText
                    /\ consumed' = << >>
                    /\ UNCHANGED <<user_input, first_reasoning, first_result,
                                   reasoning, response, error, outcome>>
               ELSE LocalsGone /\ ShowError

\* Lines 200-210, one iteration that passes the stop check.
SecondChunk(chunk) ==
    /\ pc = "second_stream"
    /\ ~should_stop
    /\ Len(consumed) < MaxChunks
    /\ LET acc == StreamBody(chunk, Acc(second_reasoning, second_result))
       IN  /\ second_reasoning' = acc.reasoning
           /\ second_result' = acc.answer
    /\ consumed' = Append(consumed, chunk)
    /\ UNCHANGED <<session, log, pc, user_input, first_reasoning, first_result,
                   reasoning, response, error, requests, op, outcome, pre, quoteVars>>

\* A commit that forgets the HistoryRecord.
FirstCommitSkipsHistory ==
    /\ messages' = Append(messages,
           Message("assistant", complete_response(first_result, second_result)))
    /\ UNCHANGED history

\* Lines 223-234: the assistant Message and the HistoryRecord.
FirstCommit ==
    /\ messages' = Append(messages,
           Message("assistant", complete_response(first_result, second_result)))
    /\ history' = Append(history, HistoryRecord(user_input, first_reasoning,
                      first_result, second_reasoning, second_result))

\* Lines 200-202 and 212-237: the second loop ends (exhausted, or stopped at a
\* chunk), the risk record is logged, the exchange is committed.
SecondStreamEnds ==
    /\ pc = "second_stream"
    /\ log' = log_generation(
           formatted_prompt(user_input) \o <<NL, NL>> \o first_result
               \o <<NL, NL>> \o prompt_b,
           second_result, second_reasoning, "success", "risk_analysis")
    /\ FirstCommit
    /\ is_first_message' = FALSE
    /\ LocalsGone
    /\ Rerun
    /\ UNCHANGED <<should_stop, requests, op, pre, quoteVars>>

(* ----------------------- handle_regular_message ----------------------- *)
\* Send clicked on a later message; lines 240-268.
HandleRegularMessage(u, stop_button, created) ==
    /\ CanSend(1)
    /\ u # EmptyText
    /\ ~is_first_message
    /\ op' = "regular"
    /\ pre' = Snapshot(u)
    /\ messages' = AppendUserMessage(messages, u)
    /\ UNCHANGED <<is_first_message, history, log, quoteVars>>
    /\ IF stop_button
       THEN /\ should_stop' = TRUE
            /\ requests' = << >>
            /\ LocalsGone
            /\ Rerun
       ELSE /\ should_stop' = FALSE
            /\ requests' = << RegularRequest(messages', u) >>
            /\ IF created
               THEN /\ pc' = "response_stream"
                    /\ outcome' = "running"
                    /\ user_input' = u
                    /\ reasoning' = EmptyText /\ response' = EmptyText
                    /\ consumed' = << >>
                    /\ error' = FALSE
                    /\ UNCHANGED <<first_reasoning, first_result,
                                   second_reasoning, second_result>>
               ELSE LocalsGone /\ ShowError

\* Lines 270-280, one iteration that passes the stop check.
ResponseChunk(chunk) ==
    /\ pc = "response_stream"
    /\ ~should_stop
    /\ Len(consumed) < MaxChunks
    /\ LET acc == StreamBody(chunk, Acc(reasoning, response))
       IN  /\ reasoning' = acc.reasoning
           /\ response' = acc.answer
    /\ consumed' = Append(consumed, chunk)
    /\ UNCHANGED <<session, log, pc, user_input, first_reasoning, first_result,
                   second_reasoning, second_result, error, requests, op, outcome,
                   pre, quoteVars>>

\* Lines 270-272 and 282-294.
ResponseStreamEnds ==
    /\ pc = "response_stream"
    /\ log' = log_generation(user_input, response, reasoning, "success",
                             "conversation")
    /\ messages' = Append(messages, Message("assistant", response))
    /\ LocalsGone
    /\ Rerun
    /\ UNCHANGED <<is_first_message, history, should_stop, requests, op, pre,
                   quoteVars>>

(* ------------------------------ the rest ------------------------------ *)
\* Iterating any of the three streams raises; the exception leaves the handler
\* and main's except clause reports it.
StreamRaises ==
    /\ pc \in Streaming
    /\ LocalsGone
    /\ ShowError
    /\ UNCHANGED <<session, log, requests, op, pre, quoteVars>>

\* The user's cancel reaches the session while a loop is polling the flag:
\* st.session_state.should_stop = True.
StopRequested ==
    /\ pc \in Streaming
    /\ ~should_stop
    /\ should_stop' = TRUE
    /\ UNCHANGED <<messages, is_first_message, history, log, pc, user_input, locals,
                   error, requests, consumed, op, outcome, pre, quoteVars>>

\* Send clicked with an empty input box: `if user_input:` (line 360) skips the
\* handlers and the page is only redrawn.
SendEmpty ==
    /\ pc = "idle"
    /\ EmptyText \in UserTexts
    /\ op' = "empty"
    /\ outcome' = "returned"
    /\ pre' = Snapshot(EmptyText)
    /\ error' = FALSE
    /\ UNCHANGED <<session, log, pc, user_input, locals, requests, consumed,
                   quoteVars>>

\* A reset that also forgets the history.
NewConversationClearsHistory ==
    /\ pc = "idle"
    /\ op' = "new"
    /\ outcome' = "returned"
    /\ pre' = Snapshot(EmptyText)
    /\ messages' = << >>
    /\ is_first_message' = TRUE
    /\ history' = << >>
    /\ error' = FALSE
    /\ UNCHANGED <<should_stop, log, pc, user_input, locals, requests, consumed,
                   quoteVars>>

\* Lines 372-375.
NewConversation ==
    /\ pc = "idle"
    /\ op' = "new"
    /\ outcome' = "returned"
    /\ pre' = Snapshot(EmptyText)
    /\ messages' = << >>
    /\ is_first_message' = TRUE
    /\ error' = FALSE
    /\ UNCHANGED <<history, should_stop, log, pc, user_input, locals, requests,
                   consumed, quoteVars>>

Next ==
    \/ \E u \in UserTexts, stop_button \in BOOLEAN, created \in BOOLEAN :
           HandleFirstMessage(u, stop_button, created)
    \/ \E chunk \in Chunks : FirstChunk(chunk)
    \/ \E created \in BOOLEAN : FirstStreamEnds(created)
    \/ \E chunk \in Chunks : SecondChunk(chunk)
    \/ SecondStreamEnds
    \/ \E u \in UserTexts, stop_button \in BOOLEAN, created \in BOOLEAN :
           HandleRegularMessage(u, stop_button, created)
    \/ \E chunk \in Chunks : ResponseChunk(chunk)
    \/ ResponseStreamEnds
    \/ StreamRaises
    \/ StopRequested
    \/ SendEmpty
    \/ NewConversation

Spec == Init /\ [][Next]_vars

(* ---------------- format_reasoning_as_quote on its own ---------------- *)
QuoteAlphabet == {"a", ">", NL}
QuoteTexts == UNION { [1..k -> QuoteAlphabet] : k \in 0..MaxLen }

InitQuote ==
    /\ SessionInit /\ RunInit
    /\ quote_in \in QuoteTexts
    /\ quote_out = EmptyText
    /\ quote_done = FALSE

\* One call of format_reasoning_as_quote (lines 106-112; called at 314, 317).
Quote ==
    /\ ~quote_done
    /\ quote_out' = format_reasoning_as_quote(quote_in)
    /\ quote_done' = TRUE
    /\ UNCHANGED <<session, log, pc, user_input, locals, error, requests, consumed,
                   op, outcome, pre, quote_in>>

NextQuote == Quote

SpecQuote == InitQuote /\ [][NextQuote]_vars

(* ------------------------------ properties ---------------------------- *)
Last(seq) == seq[Len(seq)]

\* The click was a first-message (regular) send and its handler has returned to
\* main, respectively raised into main's except clause.
FirstReturned == op = "first" /\ outcome = "returned"
FirstRaised == op = "first" /\ outcome = "raised"
RegularReturned == op = "regular" /\ outcome = "returned"

\* The Messages the exchange has added to the list it found.
NoAssistantAdded ==
    \A i \in 1..Len(messages) :
        i > Len(pre.messages) => messages[i].role # "assistant"
OnlyUserMessageAdded ==
    messages = Append(pre.messages, Message("user", pre.user_input))
LogAdded == Len(log) - pre.loglen

\* C1 (as stated): a first-message exchange during which the stop flag was
\* raised, at the stop button, in the first stream or in the second stream, adds
\* no assistant Message and no HistoryRecord.
C1_StoppedExchangeCommitsNothing ==
    (FirstReturned /\ should_stop) =>
        (NoAssistantAdded /\ history = pre.history)

\* C2 (as stated): when a request of a first-message exchange raises, main shows
\* the error and messages and history are what they were when send was clicked.
C2_FailureLeavesSessionUntouched ==
    FirstRaised => (error /\ messages = pre.messages /\ history = pre.history)

\* C2 (amended): when a request of a first-message exchange raises, main shows
\* the error, history is what it was when send was clicked, and messages has
\* gained exactly the user Message of the exchange.
C2_FailureLeavesOnlyUserMessage ==
    FirstRaised =>
        (error /\ pc = "idle" /\ OnlyUserMessageAdded /\ history = pre.history)

\* The second request raised, after the impact record was logged.
C2_Witness ==
    FirstRaised /\ error /\ Len(requests) = 2 /\ LogAdded = 1 /\ Len(messages) = 1

\* The first exchange of a fresh session has returned, neither stopped nor failed.
FirstOfFreshCompleted ==
    /\ FirstReturned /\ ~should_stop
    /\ pre.messages = << >> /\ pre.history = << >> /\ pre.loglen = 0

TwoStepsOneRecord ==
    /\ Len(log) = 2
    /\ log[1].step = "impact_analysis" /\ log[2].step = "risk_analysis"
    /\ Len(history) = 1
    /\ history[1].news = pre.user_input

\* C3 (as stated): the completed first exchange of a fresh session leaves exactly
\* the log records impact_analysis, risk_analysis and exactly one HistoryRecord,
\* whose two analysis texts are non-empty whatever chunks arrived.
C3_TwoStepsAndNonEmptyRecord ==
    FirstOfFreshCompleted =>
        /\ TwoStepsOneRecord
        /\ history[1].impact_analysis # EmptyText
        /\ history[1].risk_analysis # EmptyText

\* C3 (amended): the completed first exchange of a fresh session leaves exactly
\* the log records impact_analysis, risk_analysis and exactly one HistoryRecord,
\* whose two analysis texts are the answers the two loops accumulated (the
\* outputs of the two log records), empty or not.
C3_TwoStepsAndAccumulatedRecord ==
    FirstOfFreshCompleted =>
        /\ TwoStepsOneRecord
        /\ history[1].impact_analysis = log[1].output
        /\ history[1].risk_analysis = log[2].output

C3_Witness ==
    /\ FirstOfFreshCompleted
    /\ Len(history) = 1
    /\ history[1].impact_analysis # EmptyText
    /\ history[1].risk_analysis # EmptyText

\* C4 (as stated): is_first_message goes from true to false only in the step that
\* also appends the assistant Message and the HistoryRecord, a first-message
\* exchange that was stopped leaves it true, and only a new conversation sets it
\* back to true.
C4_FlagFlipsOnlyWithCommit ==
    [][ /\ (is_first_message /\ ~is_first_message') =>
              /\ Len(history') = Len(history) + 1
              /\ Len(messages') = Len(messages) + 1
              /\ Last(messages').role = "assistant"
        /\ (op' = "first" /\ outcome' = "returned" /\ should_stop'
                /\ history' = history) => is_first_message'
        /\ (~is_first_message /\ is_first_message') => op' = "new" ]_vars

\* C5: a new conversation sets is_first_message, empties messages and leaves
\* history as it was when the button was clicked.
C5_NewConversationKeepsHistory ==
    op = "new" =>
        (is_first_message /\ messages = << >> /\ history = pre.history)

C5_Witness ==
    /\ op = "new"
    /\ pre.messages # << >> /\ ~pre.is_first_message
    /\ history # << >>

\* A first-message exchange cancelled before its first stream completed: it
\* returned with the flag set and never issued the second request.
CancelledInFirstStream == FirstReturned /\ should_stop /\ Len(requests) <= 1

RegularExchangeEffect ==
    /\ requests = << Append(pre.messages, Message("user", pre.user_input)) >>
    /\ LogAdded = 1
    /\ Last(log).step = "conversation"
    /\ messages = pre.messages \o << Message("user", pre.user_input),
                                    Message("assistant", Last(log).output) >>
    /\ history = pre.history
    /\ is_first_message = pre.is_first_message

\* C7 (as stated): every handle_regular_message that returns has sent one request
\* (the prior messages, then the new user text), logged one conversation record
\* and appended one assistant Message with the accumulated answer, leaving
\* history and is_first_message alone.
C7_RegularAlwaysRequestsAndAppends == RegularReturned => RegularExchangeEffect

\* C7 (amended): the same, for every handle_regular_message that returns after
\* its stop button was drawn unpressed (stream run to its end or stopped
\* part-way).
C7_RegularRequestsAndAppends ==
    (RegularReturned /\ requests # << >>) => RegularExchangeEffect

\* Stopped part-way with a partial answer, after a completed first exchange.
C7_Witness ==
    /\ RegularReturned /\ should_stop
    /\ Len(pre.messages) = 2
    /\ Last(messages).role = "assistant" /\ Last(messages).content # EmptyText

RECURSIVE ConcatReasoning(_)
ConcatReasoning(chunks) ==
    IF chunks = << >> THEN EmptyText
    ELSE chunks[1].reasoning_content \o ConcatReasoning(Tail(chunks))

RECURSIVE ConcatContent(_)
ConcatContent(chunks) ==
    IF chunks = << >> THEN EmptyText
    ELSE chunks[1].content \o ConcatContent(Tail(chunks))

AccumulatorsAre(r, a) ==
    r = ConcatReasoning(consumed) /\ a = ConcatContent(consumed)

AccumulatorsFollowChunks ==
    /\ pc = "first_stream" => AccumulatorsAre(first_reasoning, first_result)
    /\ pc = "second_stream" => AccumulatorsAre(second_reasoning, second_result)
    /\ pc = "response_stream" => AccumulatorsAre(reasoning, response)

\* C8 (as stated): once the flag is set no further chunk is consumed, and after
\* every consumed chunk the two accumulators are the concatenations of the
\* reasoning increments and of the answer increments of the chunks consumed so
\* far, also for a chunk that carries both.
C8_AccumulatorsConcatenateAllIncrements ==
    [][ /\ (should_stop /\ pc \in Streaming) =>
               (consumed' = consumed \/ pc' = "idle")
        /\ AccumulatorsFollowChunks' ]_vars

NLPositions(t) == { i \in 1..Len(t) : t[i] = NL }
LineCount(t) == Cardinality(NLPositions(t)) + 1
\* The position of the k-th newline of t.
NthNL(t, k) ==
    CHOOSE p \in NLPositions(t) :
        Cardinality({ q \in NLPositions(t) : q < p }) = k - 1
Line(t, i) ==
    SubSeq(t, IF i = 1 THEN 1 ELSE NthNL(t, i - 1) + 1,
              IF i = LineCount(t) THEN Len(t) ELSE NthNL(t, i) - 1)

QuotedLineByLine ==
    /\ LineCount(quote_out) = LineCount(quote_in)
    /\ \A i \in 1..LineCount(quote_in) :
           Line(quote_out, i) = <<">", " ">> \o Line(quote_in, i)

\* C9 (as stated): for every text of N >= 1 lines, the empty text included, the
\* formatter returns N lines, the i-th being "> " and the i-th input line.
C9_QuotesEveryText == quote_done => QuotedLineByLine

\* C9 (amended): for every non-empty text of N >= 1 lines, empty lines included,
\* the formatter returns N lines, the i-th being "> " and the i-th input line;
\* the empty text is returned as the empty text.
C9_QuotesEveryNonEmptyText ==
    quote_done =>
        IF quote_in = EmptyText THEN quote_out = EmptyText ELSE QuotedLineByLine

C9_Witness ==
    /\ quote_done
    /\ quote_in = <<NL, "a", NL>>
    /\ quote_out = <<">", " ", NL, ">", " ", "a", NL, ">", " ">>

\* C10: messages is empty or starts with a user Message, and every assistant
\* Message directly follows a user Message.
C10_AssistantFollowsUser ==
    /\ messages # << >> => messages[1].role = "user"
    /\ \A i \in 1..Len(messages) :
           messages[i].role = "assistant" =>
               (i > 1 /\ messages[i - 1].role = "user")

\* Two user Messages in a row, then an assistant Message.
C10_Witness ==
    /\ Len(messages) = 3
    /\ messages[1].role = "user" /\ messages[2].role = "user"
    /\ messages[3].role = "assistant"

====
